---- MODULE Spec2Model ----
(***************************************************************************)
(* Model of verify_cassette.py: one Verification Runner, run(playwright),  *)
(* driving a headless browser through launch -> new_page -> goto ->        *)
(* wait_for_selector -> screenshot -> print, with an except/finally around *)
(* the last four steps.  The browser library, the web server and the file  *)
(* system are the environment: each library call either returns or raises, *)
(* and a blocking call lets time pass until it returns, fails or reaches   *)
(* its timeout.  Time is counted in seconds, page heights in units of 360  *)
(* CSS pixels.                                                             *)
(***************************************************************************)
EXTENDS Integers, Sequences, FiniteSets, TLC

VARIABLES
    pc,           \* position of the script: idle, a line of run(), done, raised
    runs,         \* number of invocations of the script so far
    browser,      \* "none" | "open" | "closed": the handle of line 4
    page,         \* what the tab of line 5 currently shows
    elapsed,      \* seconds spent in the blocking call in progress
    exc,          \* the exception in flight or caught (NoExc when none)
    failedStep,   \* the step of run() that raised ("none" when none did)
    navResult,    \* "none" | "ok" | "fail": outcome of page.goto in this run
    waitResult,   \* "none" | "found" | "timeout": outcome of wait_for_selector
    shotResult,   \* "none" | "ok" | "fail": outcome of page.screenshot
    shotRequest,  \* the arguments of the screenshot call made in this run
    stdout,       \* lines printed by this invocation
    files,        \* the working directory: path -> file
    filesAtStart, \* the working directory when this invocation started
    prevOK,       \* the previous invocation ended with a screenshot taken
    prevPage      \* the page the previous invocation captured

vars == <<pc, runs, browser, page, elapsed, exc, failedStep, navResult,
          waitResult, shotResult, shotRequest, stdout, files, filesAtStart,
          prevOK, prevPage>>

----------------------------------------------------------------------------
(* Bounds of the model *)

MaxRuns == 2

MaxPageHeight == 3

PageContents == {"v1", "v2"}

----------------------------------------------------------------------------
(* Constants of the script *)

\* line 7: the target URL
TargetURL == "http://localhost:3000/hi-fi-cassette-physics/"

\* line 11: timeout=10000 (milliseconds), in seconds
SelectorTimeout == 10000 \div 1000

\* line 7: goto is called without a timeout argument, so the library's
\* default navigation timeout of 30000 ms applies, in seconds
NavTimeout == 30000 \div 1000

\* line 14: the output path
OutputPath == "verification.png"

\* line 14: screenshot is called with path only; full_page is not passed and
\* the library's default for it is False
FullPageArg == FALSE

\* line 5: new_page() without a viewport argument: the default viewport,
\* 720 px high, i.e. 2 units of 360 px
ViewportHeight == 2

\* line 15
SuccessLine == <<"Screenshot taken">>

\* line 17: f"Error: {e}"
ErrorLine(e) == <<"Error: ", e.msg>>

----------------------------------------------------------------------------
(* Values *)

NoExc == [type |-> "none", msg |-> ""]

\* the tab right after new_page(): about:blank
BlankPage == [url |-> "about:blank", content |-> "", height |-> 0]

\* what the server may serve at the target URL
Pages == [url : {TargetURL}, content : PageContents, height : 1..MaxPageHeight]

NoRequest == [path |-> "", full_page |-> FALSE]

NoFiles == [p \in {} |-> 0]

Min(a, b) == IF a < b THEN a ELSE b

\* What page.screenshot renders of page p: the whole scrollable area when
\* full_page is set, otherwise only the part inside the viewport.
Capture(p, fullPage) ==
    [content |-> p.content,
     height  |-> IF fullPage THEN p.height ELSE Min(p.height, ViewportHeight)]

\* Writing a file replaces whatever was at that path.
WriteFile(fs, path, f) ==
    [q \in (DOMAIN fs) \cup {path} |-> IF q = path THEN f ELSE fs[q]]

----------------------------------------------------------------------------
Init ==
    /\ pc = "idle"
    /\ runs = 0
    /\ browser = "none"
    /\ page = BlankPage
    /\ elapsed = 0
    /\ exc = NoExc
    /\ failedStep = "none"
    /\ navResult = "none"
    /\ waitResult = "none"
    /\ shotResult = "none"
    /\ shotRequest = NoRequest
    /\ stdout = <<>>
    /\ files = NoFiles
    /\ filesAtStart = NoFiles
    /\ prevOK = FALSE
    /\ prevPage = BlankPage

\* lines 21-22: the script is invoked; a new process starts with an empty
\* console and no browser, the working directory is what earlier
\* invocations left.
StartRun ==
    /\ pc \in {"idle", "done", "raised"}
    /\ runs < MaxRuns
    /\ pc' = "launch"
    /\ runs' = runs + 1
    /\ browser' = "none"
    /\ page' = BlankPage
    /\ elapsed' = 0
    /\ exc' = NoExc
    /\ failedStep' = "none"
    /\ navResult' = "none"
    /\ waitResult' = "none"
    /\ shotResult' = "none"
    /\ shotRequest' = NoRequest
    /\ stdout' = <<>>
    /\ filesAtStart' = files
    /\ prevOK' = (pc = "done" /\ shotResult = "ok")
    /\ prevPage' = page
    /\ UNCHANGED files

\* line 4: playwright.chromium.launch(headless=True) returns a browser
LaunchOK ==
    /\ pc = "launch"
    /\ browser' = "open"
    /\ pc' = "new_page"
    /\ UNCHANGED <<runs, page, elapsed, exc, failedStep, navResult, waitResult,
                   shotResult, shotRequest, stdout, files, filesAtStart,
                   prevOK, prevPage>>

\* line 4 raises: outside the try, the exception leaves run()
LaunchFailed ==
    /\ pc = "launch"
    /\ exc' = [type |-> "Error", msg |-> "browser executable not found"]
    /\ failedStep' = "launch"
    /\ pc' = "raised"
    /\ UNCHANGED <<runs, browser, page, elapsed, navResult, waitResult,
                   shotResult, shotRequest, stdout, files, filesAtStart,
                   prevOK, prevPage>>

\* line 5: browser.new_page() returns a blank tab; the try block is entered
NewPageOK ==
    /\ pc = "new_page"
    /\ page' = BlankPage
    /\ elapsed' = 0
    /\ pc' = "goto"
    /\ UNCHANGED <<runs, browser, exc, failedStep, navResult, waitResult,
                   shotResult, shotRequest, stdout, files, filesAtStart,
                   prevOK, prevPage>>

\* line 5 raises: it is before the try of line 6, so neither the except of
\* line 16 nor the finally of line 18 applies and the exception leaves run()
NewPageFailed ==
    /\ pc = "new_page"
    /\ exc' = [type |-> "Error", msg |-> "target closed"]
    /\ failedStep' = "new_page"
    /\ pc' = "raised"
    /\ UNCHANGED <<runs, browser, page, elapsed, navResult, waitResult,
                   shotResult, shotRequest, stdout, files, filesAtStart,
                   prevOK, prevPage>>

\* line 7: page.goto blocks; a second passes
GotoTick ==
    /\ pc = "goto"
    /\ elapsed < NavTimeout
    /\ elapsed' = elapsed + 1
    /\ UNCHANGED <<pc, runs, browser, page, exc, failedStep, navResult,
                   waitResult, shotResult, shotRequest, stdout, files,
                   filesAtStart, prevOK, prevPage>>

\* line 7: the server answers and the page loads
GotoLoaded ==
    /\ pc = "goto"
    /\ \E p \in Pages : page' = p
    /\ navResult' = "ok"
    /\ elapsed' = 0
    /\ pc' = "wait_for_selector"
    /\ UNCHANGED <<runs, browser, exc, failedStep, waitResult, shotResult,
                   shotRequest, stdout, files, filesAtStart, prevOK, prevPage>>

\* line 7 raises: the server is unreachable
GotoRefused ==
    /\ pc = "goto"
    /\ exc' = [type |-> "Error", msg |-> "net::ERR_CONNECTION_REFUSED"]
    /\ failedStep' = "goto"
    /\ navResult' = "fail"
    /\ elapsed' = 0
    /\ pc' = "except"
    /\ UNCHANGED <<runs, browser, page, waitResult, shotResult, shotRequest,
                   stdout, files, filesAtStart, prevOK, prevPage>>

\* line 7 raises: the navigation timeout has elapsed
GotoTimedOut ==
    /\ pc = "goto"
    /\ elapsed = NavTimeout
    /\ exc' = [type |-> "TimeoutError", msg |-> "Timeout 30000ms exceeded"]
    /\ failedStep' = "goto"
    /\ navResult' = "fail"
    /\ elapsed' = 0
    /\ pc' = "except"
    /\ UNCHANGED <<runs, browser, page, waitResult, shotResult, shotRequest,
                   stdout, files, filesAtStart, prevOK, prevPage>>

\* A wait that was given no timeout of its own: the library's default applies.
WaitTick_DefaultTimeout ==
    /\ pc = "wait_for_selector"
    /\ elapsed < NavTimeout
    /\ elapsed' = elapsed + 1
    /\ UNCHANGED <<pc, runs, browser, page, exc, failedStep, navResult,
                   waitResult, shotResult, shotRequest, stdout, files,
                   filesAtStart, prevOK, prevPage>>

\* line 11: page.wait_for_selector blocks; a second passes
WaitTick ==
    /\ pc = "wait_for_selector"
    /\ elapsed < SelectorTimeout
    /\ elapsed' = elapsed + 1
    /\ UNCHANGED <<pc, runs, browser, page, exc, failedStep, navResult,
                   waitResult, shotResult, shotRequest, stdout, files,
                   filesAtStart, prevOK, prevPage>>

\* line 11: an element with the marker text is in the page; the call returns
WaitFound ==
    /\ pc = "wait_for_selector"
    /\ waitResult' = "found"
    /\ elapsed' = 0
    /\ pc' = "screenshot"
    /\ UNCHANGED <<runs, browser, page, exc, failedStep, navResult, shotResult,
                   shotRequest, stdout, files, filesAtStart, prevOK, prevPage>>

\* A wait whose timeout is ignored: the script goes on to the capture.
WaitTimedOut_Swallowed ==
    /\ pc = "wait_for_selector"
    /\ elapsed = SelectorTimeout
    /\ waitResult' = "timeout"
    /\ elapsed' = 0
    /\ pc' = "screenshot"
    /\ UNCHANGED <<runs, browser, page, exc, failedStep, navResult, shotResult,
                   shotRequest, stdout, files, filesAtStart, prevOK, prevPage>>

\* A timeout that takes a screenshot of the page as it is, for diagnosis.
WaitTimedOut_DebugShot ==
    /\ pc = "wait_for_selector"
    /\ elapsed = SelectorTimeout
    /\ exc' = [type |-> "TimeoutError", msg |-> "Timeout 10000ms exceeded"]
    /\ failedStep' = "wait_for_selector"
    /\ waitResult' = "timeout"
    /\ elapsed' = 0
    /\ files' = WriteFile(files, OutputPath,
                          [image |-> Capture(page, FullPageArg), writer |-> runs])
    /\ pc' = "except"
    /\ UNCHANGED <<runs, browser, page, navResult, shotResult, shotRequest,
                   stdout, filesAtStart, prevOK, prevPage>>

\* line 11 raises: the marker did not appear within the timeout
WaitTimedOut ==
    /\ pc = "wait_for_selector"
    /\ elapsed = SelectorTimeout
    /\ exc' = [type |-> "TimeoutError", msg |-> "Timeout 10000ms exceeded"]
    /\ failedStep' = "wait_for_selector"
    /\ waitResult' = "timeout"
    /\ elapsed' = 0
    /\ pc' = "except"
    /\ UNCHANGED <<runs, browser, page, navResult, shotResult, shotRequest,
                   stdout, files, filesAtStart, prevOK, prevPage>>

\* A screenshot call without a path: the image is only returned.
ScreenshotOK_NoPath ==
    /\ pc = "screenshot"
    /\ shotRequest' = [path |-> "", full_page |-> FullPageArg]
    /\ shotResult' = "ok"
    /\ pc' = "print"
    /\ UNCHANGED <<runs, browser, page, elapsed, exc, failedStep, navResult,
                   waitResult, stdout, files, filesAtStart, prevOK, prevPage>>

\* A screenshot call that keeps earlier output by picking a fresh name.
ScreenshotOK_Versioned ==
    /\ pc = "screenshot"
    /\ LET path == IF OutputPath \in DOMAIN files
                      THEN "verification (1).png" ELSE OutputPath
       IN  /\ shotRequest' = [path |-> path, full_page |-> FullPageArg]
           /\ files' = WriteFile(files, path,
                                 [image  |-> Capture(page, FullPageArg),
                                  writer |-> runs])
    /\ shotResult' = "ok"
    /\ pc' = "print"
    /\ UNCHANGED <<runs, browser, page, elapsed, exc, failedStep, navResult,
                   waitResult, stdout, filesAtStart, prevOK, prevPage>>

\* line 14: page.screenshot(path="verification.png") renders the page and
\* writes the image to the path, replacing a file already there
ScreenshotOK ==
    /\ pc = "screenshot"
    /\ shotRequest' = [path |-> OutputPath, full_page |-> FullPageArg]
    /\ files' = WriteFile(files, OutputPath,
                          [image  |-> Capture(page, FullPageArg),
                           writer |-> runs])
    /\ shotResult' = "ok"
    /\ pc' = "print"
    /\ UNCHANGED <<runs, browser, page, elapsed, exc, failedStep, navResult,
                   waitResult, stdout, filesAtStart, prevOK, prevPage>>

\* line 14 raises: the image could not be written
ScreenshotFailed ==
    /\ pc = "screenshot"
    /\ shotRequest' = [path |-> OutputPath, full_page |-> FullPageArg]
    /\ exc' = [type |-> "Error", msg |-> "EACCES: permission denied"]
    /\ failedStep' = "screenshot"
    /\ shotResult' = "fail"
    /\ pc' = "except"
    /\ UNCHANGED <<runs, browser, page, elapsed, navResult, waitResult, stdout,
                   files, filesAtStart, prevOK, prevPage>>

\* line 15: print("Screenshot taken"); the try body is complete
PrintSuccess ==
    /\ pc = "print"
    /\ stdout' = Append(stdout, SuccessLine)
    /\ pc' = "finally"
    /\ UNCHANGED <<runs, browser, page, elapsed, exc, failedStep, navResult,
                   waitResult, shotResult, shotRequest, files, filesAtStart,
                   prevOK, prevPage>>

\* An except clause that passes silently.
PrintError_Silent ==
    /\ pc = "except"
    /\ pc' = "finally"
    /\ UNCHANGED <<runs, browser, page, elapsed, exc, failedStep, navResult,
                   waitResult, shotResult, shotRequest, stdout, files,
                   filesAtStart, prevOK, prevPage>>

\* lines 16-17: except Exception as e: print(f"Error: {e}")
PrintError ==
    /\ pc = "except"
    /\ stdout' = Append(stdout, ErrorLine(exc))
    /\ pc' = "finally"
    /\ UNCHANGED <<runs, browser, page, elapsed, exc, failedStep, navResult,
                   waitResult, shotResult, shotRequest, files, filesAtStart,
                   prevOK, prevPage>>

\* A close placed at the end of the try body instead of in a finally.
Close_OnlyOnSuccess ==
    /\ pc = "finally"
    /\ browser' = IF exc = NoExc THEN "closed" ELSE browser
    /\ pc' = "done"
    /\ UNCHANGED <<runs, page, elapsed, exc, failedStep, navResult, waitResult,
                   shotResult, shotRequest, stdout, files, filesAtStart,
                   prevOK, prevPage>>

\* lines 18-19: finally: browser.close(); run() returns
Close ==
    /\ pc = "finally"
    /\ browser' = "closed"
    /\ pc' = "done"
    /\ UNCHANGED <<runs, page, elapsed, exc, failedStep, navResult, waitResult,
                   shotResult, shotRequest, stdout, files, filesAtStart,
                   prevOK, prevPage>>

Next ==
    \/ StartRun
    \/ LaunchOK
    \/ LaunchFailed
    \/ NewPageOK
    \/ NewPageFailed
    \/ GotoTick
    \/ GotoLoaded
    \/ GotoRefused
    \/ GotoTimedOut
    \/ WaitTick
    \/ WaitFound
    \/ WaitTimedOut
    \/ ScreenshotOK
    \/ ScreenshotFailed
    \/ PrintSuccess
    \/ PrintError
    \/ Close

Spec == Init /\ [][Next]_vars

\* The calls are synchronous and the interpreter keeps running: a step that
\* can be taken is eventually taken.
FairSpec == Spec /\ WF_vars(Next)

TypeOK ==
    /\ pc \in {"idle", "launch", "new_page", "goto", "wait_for_selector",
               "screenshot", "print", "except", "finally", "done", "raised"}
    /\ runs \in 0..MaxRuns
    /\ browser \in {"none", "open", "closed"}
    /\ page \in Pages \cup {BlankPage}
    /\ elapsed \in 0..NavTimeout
    /\ navResult \in {"none", "ok", "fail"}
    /\ waitResult \in {"none", "found", "timeout"}
    /\ shotResult \in {"none", "ok", "fail"}
    /\ DOMAIN files \subseteq {OutputPath}
    /\ Len(stdout) <= 1

----------------------------------------------------------------------------
(* Properties *)

Terminal == pc \in {"done", "raised"}

\* C1: once launch has returned a browser, the browser is closed in every
\* terminal state of run(), whether run() returned or raised (a failure of
\* new_page included).
C1_BrowserClosedOnEveryExit ==
    Terminal => browser # "open"

\* C2: a failure raised while opening the page, navigating, waiting or
\* taking the screenshot never leaves run(); it is printed as an error line
\* and run() returns normally.
C2_NoFailurePropagates ==
    /\ failedStep \in {"new_page", "goto", "wait_for_selector", "screenshot"}
          => pc # "raised"
    /\ (pc = "done" /\ failedStep # "none") => stdout = <<ErrorLine(exc)>>

\* C3: a successful capture step asked for the full scrollable page and
\* wrote it to verification.png: the image is as high as the page.
C3_FullPageCapture ==
    shotResult = "ok" =>
        /\ shotRequest.path = OutputPath
        /\ shotRequest.full_page
        /\ OutputPath \in DOMAIN files
        /\ files[OutputPath].image.height = page.height

\* C4: when navigation, the wait for the marker and the screenshot all
\* succeed, run() ends with verification.png written by this run and exactly
\* the success line printed; the success line is never on the console
\* before the file of this run is on disk.
C4_HappyPath ==
    /\ (pc = "done" /\ navResult = "ok" /\ waitResult = "found"
                    /\ shotResult = "ok")
          => /\ OutputPath \in DOMAIN files
             /\ files[OutputPath].writer = runs
             /\ files[OutputPath].image.content = page.content
             /\ stdout = <<SuccessLine>>
    /\ (Len(stdout) > 0 /\ stdout[1] = SuccessLine)
          => /\ OutputPath \in DOMAIN files
             /\ files[OutputPath].writer = runs

C4_Witness ==
    /\ pc = "done"
    /\ shotResult = "ok"
    /\ stdout = <<SuccessLine>>
    /\ OutputPath \in DOMAIN files

\* C5: when navigation succeeds and the marker never appears, the
\* screenshot step is never performed, no file is written, the success line
\* is not printed, and run() ends with the timeout printed as an error line
\* and the browser closed.
C5_TimeoutPath ==
    /\ waitResult = "timeout"
          => /\ navResult = "ok"
             /\ shotResult = "none"
             /\ pc \notin {"screenshot", "print"}
             /\ files = filesAtStart
             /\ (Len(stdout) > 0 => stdout[1] # SuccessLine)
    /\ (pc = "done" /\ waitResult = "timeout")
          => /\ exc.type = "TimeoutError"
             /\ stdout = <<ErrorLine(exc)>>
             /\ browser = "closed"

C5_Witness ==
    /\ pc = "done"
    /\ waitResult = "timeout"
    /\ browser = "closed"
    /\ OutputPath \in DOMAIN files

C7_OutputOverwritten ==
    (pc = "done" /\ shotResult = "ok" /\ prevOK)
        => /\ DOMAIN files = {OutputPath}
           /\ files[OutputPath].writer = runs
           /\ files[OutputPath].image = Capture(page, shotRequest.full_page)
           /\ OutputPath \in DOMAIN filesAtStart
           /\ (page = prevPage
                 => files[OutputPath].image = filesAtStart[OutputPath].image)

C7_Witness ==
    /\ pc = "done"
    /\ shotResult = "ok"
    /\ prevOK
    /\ page.content # prevPage.content
    /\ files[OutputPath].image.content = page.content

\* C8: the screenshot step is reached only after the navigation completed
\* and the wait returned because the marker was found; after a timeout of
\* the wait the script never is at, or past, the capture step.
C8_StepOrdering ==
    /\ (pc \in {"screenshot", "print"} \/ shotResult # "none")
          => (navResult = "ok" /\ waitResult = "found")
    /\ pc = "wait_for_selector" => navResult = "ok"
    /\ waitResult = "timeout"
          => (shotResult = "none" /\ pc \notin {"screenshot", "print"})

C8_Witness ==
    /\ pc = "screenshot"
    /\ navResult = "ok"
    /\ waitResult = "found"

\* C9: a run that entered the try block has printed, when run() returns,
\* exactly one line: the success line or an error line, never both, never
\* none; the success line is printed only after a successful screenshot.
C9_ExactlyOneLine ==
    /\ Len(stdout) <= 1
    /\ pc = "done"
          => \/ (stdout = <<SuccessLine>> /\ exc = NoExc)
             \/ (stdout = <<ErrorLine(exc)>> /\ exc # NoExc)
    /\ (Len(stdout) > 0 /\ stdout[1] = SuccessLine) => shotResult = "ok"

C9_Witness ==
    /\ pc = "done"
    /\ failedStep = "screenshot"
    /\ stdout = <<ErrorLine(exc)>>

\* C10: a run that fails in the navigation or in the wait leaves the
\* working directory as it found it (a stale verification.png stays, a
\* missing one stays missing); as long as the screenshot step has not
\* succeeded in a run, nothing has been written.
C10_FailureLeavesOutput ==
    /\ (navResult = "fail" \/ waitResult = "timeout") => files = filesAtStart
    /\ shotResult # "ok" => files = filesAtStart

C10_Witness ==
    /\ pc = "done"
    /\ navResult = "fail"
    /\ OutputPath \in DOMAIN filesAtStart
    /\ files[OutputPath].writer < runs

====
